---- MODULE Spec2Model ----
(***************************************************************************)
(* Model of service/telemetry/otelconftelemetry/logger.go: the destination *)
(* classifier separateOutputPaths and the logger assembly createLogger,    *)
(* together with the emission of records through the assembled core.       *)
(***************************************************************************)
EXTENDS Integers, Sequences, FiniteSets, TLC

VARIABLES
    pc,         \* position of the program: "start", "classified", "ready", "failed", "panicked", "exited"
    paths,      \* argument of a separateOutputPaths call
    sep,        \* its two results
    cfg,        \* cfg.Logs, as read by createLogger
    res,        \* the resource built by newResource
    ret,        \* what createLogger returned: logger, shutdown, err
    zapCfg,     \* the zap.Config createLogger built
    open,       \* file destinations currently held open by the process
    counts,     \* the sampler's counters, one per (level, message) slot
    now,        \* the clock
    emitted,    \* number of records emitted so far
    last,       \* the deliveries of the record emitted last
    window      \* per slot, the pass/drop decisions since the slot's window opened

vars == <<pc, paths, sep, cfg, res, ret, zapCfg, open, counts, now, emitted, last, window>>

Nil == "nil"

(***************************************************************************)
(* Destination strings, character by character.                            *)
(***************************************************************************)
Stdout == <<"s","t","d","o","u","t">>
Stderr == <<"s","t","d","e","r","r">>
FileScheme == <<"f","i","l","e",":","/","/">>
FileStdout == FileScheme \o Stdout
FileStderr == FileScheme \o Stderr
FileStdoutLog == FileScheme \o Stdout \o <<".","l","o","g">>
StdoutTxt == Stdout \o <<".","t","x","t">>
AppLog == <<"/","v","a","r","/","l","o","g","/","a","p","p",".","l","o","g">>
ErrLog == <<"/","v","a","r","/","l","o","g","/","e","r","r",".","l","o","g">>

AllPaths == {Stdout, Stderr, FileStdout, FileStderr, FileStdoutLog, StdoutTxt, AppLog}

\* Longest destination list handed to the classifier.
MaxPaths == 3

SeqsUpTo(S, n) == UNION {[1..k -> S] : k \in 0..n}

(***************************************************************************)
(* strings.HasPrefix                                                       *)
(***************************************************************************)
HasPrefix(s, prefix) ==
    /\ Len(s) >= Len(prefix)
    /\ SubSeq(s, 1, Len(prefix)) = prefix

\* The condition of the if in separateOutputPaths.
IsConsolePath(path) ==
    \/ path = Stdout
    \/ path = Stderr
    \/ HasPrefix(path, FileStdout)
    \/ HasPrefix(path, FileStderr)

RECURSIVE SeparateLoop(_, _, _, _)
SeparateLoop(ps, i, consolePaths, filePaths) ==
    IF i > Len(ps)
    THEN [consolePaths |-> consolePaths, filePaths |-> filePaths]
    ELSE IF IsConsolePath(ps[i])
         THEN SeparateLoop(ps, i + 1, Append(consolePaths, ps[i]), filePaths)
         ELSE SeparateLoop(ps, i + 1, consolePaths, Append(filePaths, ps[i]))

\* A classifier whose else branch is taken for every path.
separateOutputPathsNoElse(ps) ==
    [consolePaths |-> SeparateLoop(ps, 1, <<>>, <<>>).consolePaths, filePaths |-> ps]

separateOutputPaths(ps) == SeparateLoop(ps, 1, <<>>, <<>>)

(***************************************************************************)
(* zapcore levels.                                                         *)
(***************************************************************************)
DebugLevel == -1
InfoLevel == 0
WarnLevel == 1
ErrorLevel == 2
DPanicLevel == 3
PanicLevel == 4
FatalLevel == 5

(***************************************************************************)
(* Cores. A core is a tree: an ioCore leaf writes to its destinations, a   *)
(* tee fans out, a sampler and the console wrapper wrap one core, and the  *)
(* otel leaf submits to the LoggerProvider.                                *)
(***************************************************************************)
NoCore == [type |-> "nil"]

IoCore(sink, out, level, encoding, fields, rotated) ==
    [type |-> "io", sink |-> sink, out |-> out, level |-> level, encoding |-> encoding,
     fields |-> fields, rotated |-> rotated]

TeeCore(cores) == [type |-> "tee", cores |-> cores]

SamplerCore(core, tick, first, thereafter) ==
    [type |-> "sampler", core |-> core, tick |-> tick, first |-> first,
     thereafter |-> thereafter]

ConsoleCore(core) == [type |-> "console", core |-> core, attrs |-> <<>>]

OTelCore(scope, resource) ==
    [type |-> "otel", scope |-> scope, resource |-> resource, fields |-> <<>>,
     attrs |-> <<>>]

\* Core.With: an ioCore clones itself with the fields added to its encoder;
\* every wrapper hands the fields to what it wraps.
RECURSIVE CoreWith(_, _)
CoreWith(c, fs) ==
    CASE c.type = "io" -> [c EXCEPT !.fields = c.fields \o fs]
      [] c.type = "otel" -> [c EXCEPT !.fields = c.fields \o fs]
      [] c.type = "tee" ->
            [c EXCEPT !.cores = [i \in 1..Len(c.cores) |-> CoreWith(c.cores[i], fs)]]
      [] c.type \in {"sampler", "console"} -> [c EXCEPT !.core = CoreWith(c.core, fs)]
      [] OTHER -> c

\* Core.Enabled
RECURSIVE CoreEnabled(_, _)
CoreEnabled(c, lvl) ==
    CASE c.type = "io" -> lvl >= c.level
      [] c.type = "otel" -> TRUE
      [] c.type = "tee" -> \E i \in 1..Len(c.cores) : CoreEnabled(c.cores[i], lvl)
      [] c.type \in {"sampler", "console"} -> CoreEnabled(c.core, lvl)
      [] OTHER -> FALSE

(***************************************************************************)
(* The sampler built by zapcore.NewSamplerWithOptions.                     *)
(***************************************************************************)
Messages == {"m"}
Slots == (DebugLevel..FatalLevel) \X Messages
NoCounts == [k \in Slots |-> [n |-> 0, resetAt |-> 0]]

\* counter.IncCheckReset: the counter after the call; its n is the value returned.
IncCheckReset(counter, tn, tick) ==
    IF counter.resetAt > tn
    THEN [counter EXCEPT !.n = counter.n + 1]
    ELSE [n |-> 1, resetAt |-> tn + tick]

\* The drop condition of sampler.Check.
SamplerDrops(n, first, thereafter) ==
    n > first /\ (thereafter = 0 \/ (n - first) % thereafter # 0)

\* Core.Check: the leaf cores that will write the entry, the counters after,
\* and whether the sampler's hook reported LogDropped.
RECURSIVE CoreCheck(_, _, _)
RECURSIVE CheckCores(_, _, _, _, _)
CheckCores(cs, i, ent, cnts, acc) ==
    IF i > Len(cs)
    THEN [cores |-> acc.cores, counts |-> cnts, dropped |-> acc.dropped]
    ELSE LET r == CoreCheck(cs[i], ent, cnts)
         IN CheckCores(cs, i + 1, ent, r.counts,
                       [cores |-> acc.cores \o r.cores,
                        dropped |-> acc.dropped \/ r.dropped])

CoreCheck(c, ent, cnts) ==
    CASE c.type \in {"io", "otel"} ->
            [cores |-> IF CoreEnabled(c, ent.Level) THEN <<c>> ELSE <<>>,
             counts |-> cnts, dropped |-> FALSE]
      [] c.type = "tee" ->
            CheckCores(c.cores, 1, ent, cnts, [cores |-> <<>>, dropped |-> FALSE])
      [] c.type = "console" -> CoreCheck(c.core, ent, cnts)
      [] c.type = "sampler" ->
            IF ~CoreEnabled(c, ent.Level)
            THEN [cores |-> <<>>, counts |-> cnts, dropped |-> FALSE]
            ELSE LET k == <<ent.Level, ent.Message>>
                     counter == IncCheckReset(cnts[k], ent.Time, c.tick)
                     after == [cnts EXCEPT ![k] = counter]
                 IN IF SamplerDrops(counter.n, c.first, c.thereafter)
                    THEN [cores |-> <<>>, counts |-> after, dropped |-> TRUE]
                    ELSE CoreCheck(c.core, ent, after)
      [] OTHER -> [cores |-> <<>>, counts |-> cnts, dropped |-> FALSE]

(***************************************************************************)
(* createLogger, stage by stage.                                           *)
(***************************************************************************)
\* A split that keeps an empty console list as it is.
ConsoleOrEmpty(ps) == ps

\* Lines 45-50: an empty console list becomes the single target stderr.
ConsoleOrDefault(ps) == IF Len(ps) = 0 THEN <<Stderr>> ELSE ps

\* Lines 35-51: the lists handed to zap and the lists kept for rotation.
SplitOutputPaths(c) ==
    IF c.Rotation # <<>>
    THEN LET o == separateOutputPaths(c.OutputPaths)
             e == separateOutputPaths(c.ErrorOutputPaths)
         IN [outputPaths |-> ConsoleOrDefault(o.consolePaths),
             errorOutputPaths |-> ConsoleOrDefault(e.consolePaths),
             filePaths |-> o.filePaths,
             errorFilePaths |-> e.filePaths]
    ELSE [outputPaths |-> c.OutputPaths,
          errorOutputPaths |-> c.ErrorOutputPaths,
          filePaths |-> <<>>,
          errorFilePaths |-> <<>>]

\* Lines 53-63.
NewZapConfig(c, sp) ==
    [Level |-> c.Level,
     Encoding |-> c.Encoding,
     OutputPaths |-> sp.outputPaths,
     ErrorOutputPaths |-> sp.errorOutputPaths,
     InitialFields |-> c.InitialFields]

\* A string field, and the dictionary field zap.Dict builds.
Field(key) == [Key |-> key, Dict |-> <<>>]
DictField(key, children) == [Key |-> key, Dict |-> children]

\* Line 70, zap.Config.Build: one ioCore over all of OutputPaths, with the
\* initial fields attached to it through the Fields option (Core.With).
Build(z) ==
    LET core == IoCore("base", z.OutputPaths, z.Level, z.Encoding, <<>>, <<>>)
        fs == [i \in 1..Len(z.InitialFields) |-> Field(z.InitialFields[i])]
    IN IF Len(fs) > 0 THEN CoreWith(core, fs) ELSE core

\* The files zap.Open creates or opens for Build; the standard streams are
\* the process's own.
OpenedByBuild(z) ==
    ({z.OutputPaths[i] : i \in 1..Len(z.OutputPaths)}
        \cup {z.ErrorOutputPaths[i] : i \in 1..Len(z.ErrorOutputPaths)})
        \ {Stdout, Stderr}

\* Lines 81-86.
RotationEncoder(z) == IF z.Encoding = "json" THEN "json" ELSE "console"

\* An error core that takes the configured threshold, as the file cores do.
ErrorCoreLevelAsConfigured(z) == z.Level

\* Line 121.
ErrorCoreLevel(z) == ErrorLevel

\* Lines 89-104.
FileCores(c, z, filePaths) ==
    [i \in 1..Len(filePaths) |->
        IoCore("file", <<filePaths[i]>>, z.Level, RotationEncoder(z), <<>>, c.Rotation)]

\* Lines 108-124.
ErrorFileCores(c, z, errorFilePaths) ==
    [i \in 1..Len(errorFilePaths) |->
        IoCore("errorfile", <<errorFilePaths[i]>>, ErrorCoreLevel(z), RotationEncoder(z),
               <<>>, c.Rotation)]

\* Lines 76-128.
RotationCore(c, z, sp, core) ==
    IF c.Rotation # <<>> /\ (Len(sp.filePaths) > 0 \/ Len(sp.errorFilePaths) > 0)
    THEN TeeCore(<<core>> \o FileCores(c, z, sp.filePaths)
                         \o ErrorFileCores(c, z, sp.errorFilePaths))
    ELSE core

\* attribute.Value.Emit: a string value as it is, any other in its text form.
ValueEmit(v) == IF v.type = "STRING" THEN v.val ELSE ToString(v.val)

\* Lines 139-144: one string field per attribute, grouped under "resource".
ResourceField(r) ==
    DictField("resource",
              [i \in 1..Len(r.attrs) |->
                  [Key |-> r.attrs[i].Key, String |-> ValueEmit(r.attrs[i].Value)]])

\* Lines 137-147.
ResourceCore(r, core) ==
    IF ~r.nil /\ Len(r.attrs) > 0
    THEN CoreWith(core, <<ResourceField(r)>>)
    ELSE core

\* A sampler built with Initial and Thereafter in each other's place.
SamplingCoreSwapped(c, core) ==
    IF c.Sampling # <<>> /\ c.Sampling[1].Enabled
    THEN SamplerCore(core, c.Sampling[1].Tick, c.Sampling[1].Thereafter,
                     c.Sampling[1].Initial)
    ELSE core

\* Lines 149-158.
SamplingCore(c, core) ==
    IF c.Sampling # <<>> /\ c.Sampling[1].Enabled
    THEN SamplerCore(core, c.Sampling[1].Tick, c.Sampling[1].Initial,
                     c.Sampling[1].Thereafter)
    ELSE core

\* Lines 160-172: the SDK's LoggerProvider stamps the resource it was built
\* with on every record it is given.
LoggerProvider(r) == [resource |-> IF r.nil THEN <<>> ELSE r.attrs]

\* Lines 173-182: the console wrapper and the tee to the LoggerProvider, both
\* with an empty attribute set.
ExportTee(core, lp) ==
    TeeCore(<<ConsoleCore(core),
              OTelCore("go.opentelemetry.io/collector/service", lp.resource)>>)

\* An assembly that wraps with the sampler after the tee to the LoggerProvider.
AssembleCoreSamplerLast(c, r, z, sp, lp) ==
    SamplingCore(c, ExportTee(ResourceCore(r, RotationCore(c, z, sp, Build(z))), lp))

\* An assembly that attaches the resource fields after the tee, to the whole logger.
AssembleCoreResourceLast(c, r, z, sp, lp) ==
    ResourceCore(r, ExportTee(SamplingCore(c, RotationCore(c, z, sp, Build(z))), lp))

\* The order of the wrappers in createLogger.
AssembleCore(c, r, z, sp, lp) ==
    ExportTee(SamplingCore(c, ResourceCore(r, RotationCore(c, z, sp, Build(z)))), lp)

(***************************************************************************)
(* Inputs.                                                                 *)
(***************************************************************************)
\* Longest OutputPaths and ErrorOutputPaths list of a configuration.
MaxCfgPaths == 2
\* Records emitted through one logger.
MaxEmits == 2
\* Records emitted through one logger in the sampling runs.
MaxBurst == 10
\* Last instant of the clock in the sampling runs.
MaxTime == 1
\* Largest sampling parameters.
MaxTick == 2
MaxInitial == 2
MaxThereafter == 5

ConfigLevels == {DebugLevel, InfoLevel, FatalLevel}
RecordLevels == {InfoLevel, ErrorLevel, FatalLevel}
SampledLevels == {InfoLevel, ErrorLevel}

RotationConfig == [MaxSizeMB |-> 100, MaxBackups |-> 3, MaxAgeDays |-> 7, Compress |-> TRUE]
SamplingConfig(enabled, tick, initial, thereafter) ==
    [Enabled |-> enabled, Tick |-> tick, Initial |-> initial, Thereafter |-> thereafter]

Resources ==
    {[nil |-> FALSE, attrs |-> <<>>],
     [nil |-> FALSE,
      attrs |-> <<[Key |-> "service", Value |-> [type |-> "STRING", val |-> "x"]],
                  [Key |-> "process.pid", Value |-> [type |-> "INT64", val |-> 7]]>>]}

Configs ==
    [Level : ConfigLevels,
     Encoding : {"json"},
     OutputPaths : SeqsUpTo({Stderr, AppLog}, MaxCfgPaths),
     ErrorOutputPaths : SeqsUpTo({Stderr, ErrLog}, MaxCfgPaths),
     InitialFields : {<<>>, <<"env">>},
     Rotation : {<<>>, <<RotationConfig>>},
     Sampling : {<<>>, <<SamplingConfig(TRUE, 1, 1, 0)>>}]

SamplingConfigs ==
    [Level : {InfoLevel},
     Encoding : {"json"},
     OutputPaths : {<<Stderr>>},
     ErrorOutputPaths : {<<Stderr>>},
     InitialFields : {<<>>},
     Rotation : {<<>>},
     Sampling : {<<>>, <<SamplingConfig(FALSE, 1, 0, 0)>>} \cup
                {<<SamplingConfig(TRUE, t, i, th)>> :
                    t \in 1..MaxTick, i \in 0..MaxInitial, th \in 0..MaxThereafter}]

NoWindow == [k \in Slots |-> [start |-> 0, decisions |-> <<>>]]

(***************************************************************************)
(* Actions.                                                                *)
(***************************************************************************)
\* One call of separateOutputPaths.
Classify ==
    /\ pc = "start"
    /\ sep' = separateOutputPaths(paths)
    /\ pc' = "classified"
    /\ UNCHANGED <<paths, cfg, res, ret, zapCfg, open, counts, now, emitted, last, window>>

\* One call of createLogger. isConfig: componentConfig holds a *Config;
\* buildErr: zapCfg.Build fails; sdkErr: newSDK fails.
CreateLogger ==
    /\ pc = "start"
    /\ \E isConfig \in BOOLEAN, buildErr \in BOOLEAN, sdkErr \in BOOLEAN :
        LET sp == SplitOutputPaths(cfg)
            z == NewZapConfig(cfg, sp)
            lp == LoggerProvider(res)
        IN IF ~isConfig
           THEN \* line 27: the type assertion panics
                /\ pc' = "panicked"
                /\ UNCHANGED <<ret, zapCfg, open>>
           ELSE IF buildErr
           THEN \* lines 70-73: zap.Open closed what it had opened
                /\ pc' = "failed"
                /\ ret' = <<[logger |-> NoCore, shutdown |-> Nil, err |-> "build"]>>
                /\ zapCfg' = <<z>>
                /\ open' = {}
           ELSE IF sdkErr
           THEN \* lines 165-167
                /\ pc' = "failed"
                /\ ret' = <<[logger |-> NoCore, shutdown |-> Nil, err |-> "sdk"]>>
                /\ zapCfg' = <<z>>
                /\ open' = OpenedByBuild(z)
           ELSE /\ pc' = "ready"
                /\ ret' = <<[logger |-> AssembleCore(cfg, res, z, sp, lp),
                             shutdown |-> "sdk.Shutdown", err |-> Nil]>>
                /\ zapCfg' = <<z>>
                /\ open' = OpenedByBuild(z)
    /\ UNCHANGED <<paths, sep, cfg, res, counts, now, emitted, last, window>>

\* What the checked cores write for one entry.
RECURSIVE LocalWrites(_, _)
LocalWrites(cores, i) ==
    IF i > Len(cores) THEN <<>>
    ELSE (IF cores[i].type = "io"
          THEN [j \in 1..Len(cores[i].out) |->
                    [dest |-> cores[i].out[j], sink |-> cores[i].sink,
                     fields |-> cores[i].fields, encoding |-> cores[i].encoding,
                     rotated |-> cores[i].rotated # <<>>]]
          ELSE <<>>) \o LocalWrites(cores, i + 1)

RECURSIVE Exports(_, _)
Exports(cores, i) ==
    IF i > Len(cores) THEN <<>>
    ELSE (IF cores[i].type = "otel"
          THEN <<[scope |-> cores[i].scope, resource |-> cores[i].resource,
                  fields |-> cores[i].fields]>>
          ELSE <<>>) \o Exports(cores, i + 1)

\* One record logged through the returned logger: Logger.check, then
\* CheckedEntry.Write.
Emit(lvl, msg) ==
    /\ pc = "ready"
    /\ LET core == ret[1].logger
           ent == [Level |-> lvl, Message |-> msg, Time |-> now]
           r == IF lvl < DPanicLevel /\ ~CoreEnabled(core, lvl)
                THEN [cores |-> <<>>, counts |-> counts, dropped |-> FALSE]
                ELSE CoreCheck(core, ent, counts)
           local == LocalWrites(r.cores, 1)
           k == <<lvl, msg>>
           w == window[k]
           sampling == cfg.Sampling # <<>> /\ cfg.Sampling[1].Enabled
       IN /\ counts' = r.counts
          /\ last' = <<[Level |-> lvl, Message |-> msg, Time |-> now, local |-> local,
                       exported |-> Exports(r.cores, 1), dropped |-> r.dropped]>>
          /\ open' = open \cup {local[i].dest : i \in {j \in 1..Len(local) : local[j].rotated}}
          /\ window' = IF sampling /\ lvl >= cfg.Level
                       THEN IF w.decisions = <<>> \/ now >= w.start + cfg.Sampling[1].Tick
                            THEN [window EXCEPT ![k] = [start |-> now, decisions |-> <<local # <<>>>>]]
                            ELSE [window EXCEPT ![k].decisions = Append(@, local # <<>>)]
                       ELSE window
    /\ emitted' = emitted + 1
    /\ pc' = IF lvl = FatalLevel THEN "exited" ELSE "ready"
    /\ UNCHANGED <<paths, sep, cfg, res, ret, zapCfg, now>>

AdvanceTime ==
    /\ pc = "ready"
    /\ now < MaxTime
    /\ now' = now + 1
    /\ UNCHANGED <<pc, paths, sep, cfg, res, ret, zapCfg, open, counts, emitted, last, window>>

(***************************************************************************)
(* Specifications.                                                         *)
(***************************************************************************)
NoSep == [consolePaths |-> <<>>, filePaths |-> <<>>]

InitCommon ==
    /\ pc = "start"
    /\ sep = NoSep
    /\ ret = <<>>
    /\ zapCfg = <<>>
    /\ open = {}
    /\ counts = NoCounts
    /\ now = 0
    /\ emitted = 0
    /\ last = <<>>
    /\ window = NoWindow

Init ==
    /\ InitCommon
    /\ paths = <<>>
    /\ cfg \in Configs
    /\ res \in Resources

Next ==
    \/ CreateLogger
    \/ (emitted < MaxEmits /\ \E lvl \in RecordLevels, msg \in Messages : Emit(lvl, msg))

Spec == Init /\ [][Next]_vars

InitClassifier ==
    /\ InitCommon
    /\ paths \in SeqsUpTo(AllPaths, MaxPaths)
    /\ cfg \in {c \in SamplingConfigs : c.Sampling = <<>> /\ c.Encoding = "json"}
    /\ res = [nil |-> TRUE, attrs |-> <<>>]

NextClassifier == Classify

SpecClassifier == InitClassifier /\ [][NextClassifier]_vars

InitSampling ==
    /\ InitCommon
    /\ paths = <<>>
    /\ cfg \in SamplingConfigs
    /\ res = [nil |-> FALSE, attrs |-> <<>>]

NextSampling ==
    \/ CreateLogger
    \/ (emitted < MaxBurst /\ \E lvl \in SampledLevels, msg \in Messages : Emit(lvl, msg))
    \/ AdvanceTime

SpecSampling == InitSampling /\ [][NextSampling]_vars

(***************************************************************************)
(* Properties.                                                             *)
(***************************************************************************)
Range(q) == {q[i] : i \in 1..Len(q)}
Count(q, x) == Cardinality({i \in 1..Len(q) : q[i] = x})

\* A record has been emitted through the returned logger.
Emitted == pc \in {"ready", "exited"} /\ last # <<>>
\* The indices of the last record's local writes made by the sinks of one kind.
WritesOf(sink) == {i \in 1..Len(last[1].local) : last[1].local[i].sink = sink}
WrittenTo(sink, path) == \E i \in WritesOf(sink) : last[1].local[i].dest = path
HasAttributes == ~res.nil /\ Len(res.attrs) > 0
\* How many times a field list carries a group named "resource".
ResourceGroups(fields) ==
    Cardinality({i \in 1..Len(fields) : fields[i].Key = "resource"})
\* Every such group holds the resource's attributes, one child each.
GroupsHoldAttributes(fields) ==
    \A i \in 1..Len(fields) : fields[i].Key = "resource" =>
        /\ Len(fields[i].Dict) = Len(res.attrs)
        /\ \A j \in 1..Len(res.attrs) : fields[i].Dict[j].Key = res.attrs[j].Key
SamplingEnabled == cfg.Sampling # <<>> /\ cfg.Sampling[1].Enabled

\* C1: with rotation, each error-only rotated destination writes the record
\* handed to the sinks exactly when its level is error or above, whatever the
\* configured threshold; below error it writes nothing.
C1_ErrorOnlySinks ==
    (Emitted /\ cfg.Rotation # <<>>) =>
        LET errs == SelectSeq(cfg.ErrorOutputPaths, LAMBDA p : ~IsConsolePath(p))
        IN /\ \A j \in 1..Len(errs) :
                WrittenTo("errorfile", errs[j])
                    <=> (last[1].Level >= ErrorLevel /\ ~last[1].dropped)
           /\ last[1].Level < ErrorLevel => WritesOf("errorfile") = {}
           /\ \A i \in WritesOf("errorfile") : last[1].local[i].dest \in Range(errs)

\* An info record under a threshold of info or lower reaches the console and
\* not the error-only rotated file.
C1_Witness ==
    /\ Emitted /\ cfg.Rotation # <<>> /\ cfg.Level <= InfoLevel
    /\ ErrLog \in Range(cfg.ErrorOutputPaths)
    /\ last[1].Level = InfoLevel
    /\ WritesOf("base") # {}
    /\ ~WrittenTo("errorfile", ErrLog)

\* C2: when the resource has attributes, every local write and every export of
\* a record carries the resource group exactly once; when it has none, no
\* write carries it.
C2_ResourceOnce ==
    Emitted =>
        /\ \A i \in 1..Len(last[1].local) :
              /\ ResourceGroups(last[1].local[i].fields) = IF HasAttributes THEN 1 ELSE 0
              /\ GroupsHoldAttributes(last[1].local[i].fields)
        /\ \A i \in 1..Len(last[1].exported) :
              (IF last[1].exported[i].resource = res.attrs /\ HasAttributes THEN 1 ELSE 0)
                + ResourceGroups(last[1].exported[i].fields)
                    = IF HasAttributes THEN 1 ELSE 0

\* A record written to the console, to a rotated file and to the export
\* pipeline, under a resource with attributes.
C2_Witness ==
    /\ Emitted /\ HasAttributes
    /\ WritesOf("base") # {} /\ WritesOf("file") # {} /\ WritesOf("errorfile") # {}
    /\ last[1].exported # <<>>

\* C3: when newSDK fails, createLogger returns an error with no logger and no
\* shutdown function, and no destination opened by the assembly is left open.
C3_SdkFailureLeavesNothingOpen ==
    (pc = "failed" /\ ret[1].err = "sdk") =>
        /\ ret[1].err # Nil
        /\ ret[1].logger = NoCore
        /\ ret[1].shutdown = Nil
        /\ open = {}

\* C4: with rotation, each list handed to the base core is the console part
\* of the configured list, or the single target stderr when that part is
\* empty; a record at or above the threshold that reaches the sinks is
\* written to every one of these console targets, of which there is one at least.
C4_ConsoleFallback ==
    LET console(ps) == SelectSeq(ps, IsConsolePath)
        expected(ps) == IF console(ps) # <<>> THEN console(ps) ELSE <<Stderr>>
    IN (zapCfg # <<>> /\ cfg.Rotation # <<>>) =>
        /\ zapCfg[1].OutputPaths = expected(cfg.OutputPaths)
        /\ zapCfg[1].ErrorOutputPaths = expected(cfg.ErrorOutputPaths)
        /\ (Emitted /\ last[1].Level >= cfg.Level /\ ~last[1].dropped) =>
              /\ WritesOf("base") # {}
              /\ \A p \in Range(expected(cfg.OutputPaths)) : WrittenTo("base", p)
              /\ \A i \in WritesOf("base") : IsConsolePath(last[1].local[i].dest)

\* Every configured target is durable, and the record still reaches stderr.
C4_Witness ==
    /\ Emitted /\ cfg.Rotation # <<>>
    /\ Range(cfg.OutputPaths) = {AppLog}
    /\ last[1].Level >= cfg.Level
    /\ WrittenTo("base", Stderr) /\ WrittenTo("file", AppLog)

\* The destination literals the interface names.
IsConsoleLiteral(path) == path \in {Stdout, Stderr, FileStdout, FileStderr}

\* C5: a destination is classified interactive exactly when it is one of
\* "stdout", "stderr", "file://stdout", "file://stderr", and durable otherwise;
\* ["stdout", "/var/log/app.log", "stderr"] gives ["stdout", "stderr"] and
\* ["/var/log/app.log"].
C5_ExactLiterals ==
    pc = "classified" =>
        /\ \A i \in 1..Len(paths) :
              /\ paths[i] \in Range(sep.consolePaths) <=> IsConsoleLiteral(paths[i])
              /\ paths[i] \in Range(sep.filePaths) <=> ~IsConsoleLiteral(paths[i])
        /\ paths = <<Stdout, AppLog, Stderr>> =>
              sep = [consolePaths |-> <<Stdout, Stderr>>, filePaths |-> <<AppLog>>]

\* C6: the classifier partitions its input: the two results together hold
\* each element as often as the input does, no element is in both, and each
\* result keeps the input's order.
C6_Partition ==
    pc = "classified" =>
        /\ \A p \in AllPaths :
              Count(sep.consolePaths, p) + Count(sep.filePaths, p) = Count(paths, p)
        /\ Range(sep.consolePaths) \cap Range(sep.filePaths) = {}
        /\ sep.consolePaths = SelectSeq(paths, LAMBDA p : p \in Range(sep.consolePaths))
        /\ sep.filePaths = SelectSeq(paths, LAMBDA p : p \in Range(sep.filePaths))

\* A list with a repeated element and elements of both groups, classified.
C6_Witness ==
    /\ pc = "classified"
    /\ Len(paths) = MaxPaths
    /\ Cardinality(Range(paths)) < Len(paths)
    /\ sep.consolePaths # <<>> /\ sep.filePaths # <<>>

\* C7: a call with a config that is not a *Config returns an error, with no
\* logger and no shutdown function, and does not terminate abnormally.
C7_MismatchReturnsError ==
    pc = "panicked" =>
        /\ ret # <<>>
        /\ ret[1].err # Nil
        /\ ret[1].logger = NoCore
        /\ ret[1].shutdown = Nil

\* C8: with sampling enabled, the n-th record of a signature since its tick
\* window opened is delivered locally exactly when n <= Initial or n - Initial
\* is a positive multiple of Thereafter; with Initial 2 and Thereafter 5, ten
\* records in one window give the three deliveries 1, 2 and 7. With sampling
\* absent or disabled the stage drops nothing.
C8_Sampling ==
    /\ SamplingEnabled =>
          \A k \in Slots : \A n \in 1..Len(window[k].decisions) :
              LET first == cfg.Sampling[1].Initial
                  thereafter == cfg.Sampling[1].Thereafter
              IN window[k].decisions[n] <=>
                    \/ n <= first
                    \/ \E m \in 1..n : n - first = m * thereafter
    /\ (SamplingEnabled /\ cfg.Sampling[1].Initial = 2 /\ cfg.Sampling[1].Thereafter = 5) =>
          \A k \in Slots : Len(window[k].decisions) = 10 =>
              {n \in 1..10 : window[k].decisions[n]} = {1, 2, 7}
    /\ (~SamplingEnabled /\ Emitted) =>
          /\ ~last[1].dropped
          /\ last[1].Level >= cfg.Level => last[1].local # <<>>

\* Ten records of one signature inside one window, Initial 2 and Thereafter 5.
C8_Witness ==
    /\ cfg.Sampling = <<SamplingConfig(TRUE, 1, 2, 5)>>
    /\ \E k \in Slots : Len(window[k].decisions) = 10

\* C9: whatever the rotation, resource and sampling configuration, every
\* record emitted at or above the threshold is submitted exactly once to the
\* LoggerProvider, the records the sampler drops included.
C9_ExportedOnce ==
    (Emitted /\ last[1].Level >= cfg.Level) => Len(last[1].exported) = 1

\* A record the sampler dropped from the local sinks, exported.
C9_Witness ==
    /\ Emitted /\ last[1].dropped /\ last[1].local = <<>>
    /\ cfg.Rotation # <<>> /\ HasAttributes
    /\ Len(last[1].exported) = 1

\* C10: every local write of a record carries the configured initial fields,
\* the writes to the rotated files as the writes of the base core.
C10_InitialFieldsEverywhere ==
    Emitted =>
        \A i \in 1..Len(last[1].local) : \A j \in 1..Len(cfg.InitialFields) :
            Field(cfg.InitialFields[j]) \in Range(last[1].local[i].fields)

====
